---- MODULE Spec2Model ----
(***************************************************************************)
(* smartlighting.py: a Flask application with two routes, started by       *)
(* app.run on the port taken from the PORT environment variable.           *)
(*                                                                         *)
(* Text is modelled as sequences of tokens.  A URL path or a file name is  *)
(* the sequence of its segments, i.e. the text split on "/" (so "../s" is  *)
(* <<"..", "s">>, "/s" is <<"", "s">> and "a//b" is <<"a", "", "b">>).     *)
(* File contents are sequences of content tokens, the PORT value is a      *)
(* sequence of characters.  Filesystem paths are relative to the           *)
(* application root (app.root_path), which is <<>>.                        *)
(*                                                                         *)
(* Not modelled: request headers (conditional and range requests), the     *)
(* router's redirect of doubled slashes, symbolic links, and access        *)
(* permissions of files other than the index template.                     *)
(***************************************************************************)
EXTENDS Integers, Sequences, FiniteSets, TLC

\* ------------------------------------------------------------------ bounds
NProcs == 2
MaxSegs == 3
MaxTplLen == 2

\* --------------------------------------------------------------- constants
DefaultPort == 5000

Procs == 1 .. NProcs
PortRange == 0 .. 65535
EphemeralPorts == 49152 .. (49152 + NProcs - 1)

\* Values of the PORT environment variable, as character sequences.
PortStrings ==
    { <<"8", "0", "8", "0">>, <<"5", "0", "0", "0">>, <<"0">>,
      <<"7", "0", "0", "0", "0">>, <<"-", "1">>, <<"a", "b", "c">>,
      <<"8", "0", "8", "0", ".", "0">>, <<>> }
\* os.environ as far as the program reads it: <<>> is PORT unset, <<s>> is PORT=s.
PortEnvs == {<<>>} \cup { <<s>> : s \in PortStrings }

Methods == {"GET", "POST"}
\* The methods a route registered without methods= answers.
AllowedMethods == {"GET", "HEAD", "OPTIONS"}

\* ------------------------------------------------------------- filesystem
TplPath == <<"templates", "index.html">>
StaticFolder == <<"static">>
SecretPath == <<"s">>
StaticFiles == { <<"static", "a">>, <<"static", "d", "a">> }
Files == {TplPath, SecretPath} \cup StaticFiles
Dirs == { <<>>, <<"templates">>, <<"static">>, <<"static", "d">> }

Absent == [st |-> "absent", data |-> <<>>]
Unreadable == [st |-> "unreadable", data |-> <<>>]
File(c) == [st |-> "file", data |-> c]

SeqsUpTo(S, n) == UNION { [1 .. k -> S] : k \in 0 .. n }

TplTokens == {"T", "NL", "EXPR", "BAD"}
TplContents == SeqsUpTo(TplTokens, MaxTplLen)
StaticContents == { <<"T">>, <<"EXPR", "NL">> }

InitFs ==
    [f \in Files |->
        IF f = TplPath THEN File(<<"T", "NL">>)
        ELSE IF f = SecretPath THEN File(<<"K">>)
        ELSE IF f = <<"static", "a">> THEN File(<<"T">>)
        ELSE File(<<"EXPR", "NL">>)]

\* ------------------------------------------------------------ request text
RawSegs == {"..", ".", "", "a", "d", "s", "%2e%2e", "..%2fs"}
RawFilenames == UNION { [1 .. k -> RawSegs] : k \in 1 .. MaxSegs }
IndexPath == <<"">>

\* The WSGI server percent-decodes the path before the application routes it:
\* %2e is ".", %2f is "/" (and so splits one raw segment in two).
Unquote(seg) ==
    IF seg = "%2e%2e" THEN <<"..">>
    ELSE IF seg = "..%2fs" THEN <<"..", "s">>
    ELSE <<seg>>

RECURSIVE UnquotePath(_)
UnquotePath(raw) ==
    IF raw = <<>> THEN <<>>
    ELSE Unquote(Head(raw)) \o UnquotePath(Tail(raw))

\* The <path:filename> converter matches a non-empty text not starting with "/".
PathConverter(filename) == filename # <<>> /\ filename[1] # ""

\* ------------------------------------------------------------------ paths
\* posixpath.normpath: the number of initial slashes kept (0, 1 or 2).
InitialSlashes(path) ==
    IF Len(path) >= 2 /\ path[1] = ""
    THEN IF Len(path) >= 3 /\ path[2] = "" /\ ~(Len(path) >= 4 /\ path[3] = "")
         THEN 2 ELSE 1
    ELSE 0

RECURSIVE NormLoop(_, _, _)
NormLoop(comps, initial, new) ==
    IF comps = <<>> THEN new
    ELSE LET comp == Head(comps)
             rest == Tail(comps)
         IN  IF comp \in {"", "."} THEN NormLoop(rest, initial, new)
             ELSE IF \/ comp # ".."
                     \/ (initial = 0 /\ new = <<>>)
                     \/ (new # <<>> /\ new[Len(new)] = "..")
                  THEN NormLoop(rest, initial, Append(new, comp))
             ELSE IF new # <<>>
                  THEN NormLoop(rest, initial, SubSeq(new, 1, Len(new) - 1))
             ELSE NormLoop(rest, initial, new)

normpath(path) ==
    IF path = <<"">> THEN <<".">>
    ELSE LET initial == InitialSlashes(path)
             comps == NormLoop(path, initial, <<>>)
         IN  IF initial = 0
             THEN IF comps = <<>> THEN <<".">> ELSE comps
             ELSE [k \in 1 .. initial |-> ""]
                      \o (IF comps = <<>> THEN <<"">> ELSE comps)

isabs(path) == Len(path) >= 2 /\ path[1] = ""

\* werkzeug.security.safe_join(directory, filename): <<>> for None, else <<path>>.
safe_join_unguarded(directory, filename) ==
    <<directory \o filename>>

safe_join_strict(directory, filename) ==
    IF \E i \in 1 .. Len(filename) : filename[i] = ".." THEN <<>>
    ELSE <<directory \o normpath(filename)>>

safe_join(directory, filename) ==
    LET n == IF filename # <<"">> THEN normpath(filename) ELSE filename
    IN  IF \/ isabs(n)
           \/ n = <<"..">>
           \/ (Len(n) >= 2 /\ n[1] = "..")
        THEN <<>>
        ELSE <<directory \o n>>

\* The operating system's walk of a path from the application root: every
\* segment is looked up in a directory; ".." leaves it, "" and "." stay.
RECURSIVE OsWalk(_, _)
OsWalk(cur, segs) ==
    IF segs = <<>> THEN [ok |-> TRUE, path |-> cur]
    ELSE IF cur \notin Dirs THEN [ok |-> FALSE, path |-> cur]
    ELSE LET seg == Head(segs)
         IN  IF seg \in {"", "."} THEN OsWalk(cur, Tail(segs))
             ELSE IF seg = ".."
                  THEN OsWalk(IF cur = <<>> THEN cur
                              ELSE SubSeq(cur, 1, Len(cur) - 1), Tail(segs))
             ELSE OsWalk(Append(cur, seg), Tail(segs))

OsResolve(path) == OsWalk(<<>>, path)

\* os.path.isfile: the path resolves to an existing regular file.
isfile(f, path) ==
    LET r == OsResolve(path)
    IN  r.ok /\ r.path \in Files /\ f[r.path].st # "absent"

\* -------------------------------------------------------------- responses
NoReq == [proc |-> 0, method |-> "", path |-> <<>>]
NoResp == [status |-> 0, body |-> <<>>, file |-> <<>>]
\* An error response: the framework's error page, no file read.
ErrorResp(status) == [status |-> status, body |-> <<"ERR">>, file |-> <<>>]

\* werkzeug send_file: the file is opened and its bytes are the body.
send_file(f, path) ==
    LET p == OsResolve(path).path
    IN  IF f[p].st = "unreadable" THEN ErrorResp(500)
        ELSE [status |-> 200, body |-> f[p].data, file |-> <<p>>]

send_from_directory_nocheck(f, directory, filename) ==
    LET joined == safe_join(directory, filename)
    IN  IF joined = <<>> THEN ErrorResp(404)
        ELSE IF OsResolve(joined[1]).path \notin Files THEN ErrorResp(404)
        ELSE send_file(f, joined[1])

send_from_directory(f, directory, filename) ==
    LET joined == safe_join(directory, filename)
    IN  IF joined = <<>> THEN ErrorResp(404)
        ELSE IF ~isfile(f, joined[1]) THEN ErrorResp(404)
        ELSE send_file(f, joined[1])

\* Routing of /static/<path:filename>, then the view.
StaticResponse(f, method, raw) ==
    LET filename == UnquotePath(raw)
    IN  IF ~PathConverter(filename) THEN ErrorResp(404)
        ELSE IF method \notin AllowedMethods THEN ErrorResp(405)
        ELSE send_from_directory(f, StaticFolder, filename)

\* ---------------------------------------------------------------- templates
\* The template source compiles unless it holds a syntax error.
Compiles(src) == \A i \in 1 .. Len(src) : src[i] # "BAD"

\* Jinja rendering: one trailing newline of the source is dropped
\* (keep_trailing_newline is off) and expressions are evaluated.
StripNewline(src) ==
    IF src # <<>> /\ src[Len(src)] = "NL" THEN SubSeq(src, 1, Len(src) - 1)
    ELSE src

RenderVerbatim(src) == src

Render(src) ==
    LET s == StripNewline(src)
    IN  [i \in 1 .. Len(s) |-> IF s[i] = "EXPR" THEN "2" ELSE s[i]]

\* The loader: the template source read from the template folder, <<>> when
\* the file is missing, unreadable or does not compile.
LoadTemplateLenient(f) ==
    IF f[TplPath].st = "file" /\ Compiles(f[TplPath].data)
    THEN <<f[TplPath].data>>
    ELSE << <<>> >>

LoadTemplate(f) ==
    IF f[TplPath].st = "file" /\ Compiles(f[TplPath].data)
    THEN <<f[TplPath].data>>
    ELSE <<>>

\* jinja_env.get_template with auto_reload off (debug=False): a template
\* loaded once is served from the environment's cache.
GetTemplate(cache, f) ==
    IF cache # <<>> THEN cache ELSE LoadTemplate(f)

render_template(cache, f) ==
    LET t == GetTemplate(cache, f)
    IN  IF t = <<>> THEN ErrorResp(500)
        ELSE [status |-> 200, body |-> Render(t[1]), file |-> <<TplPath>>]

IndexResponse(cache, f, method) ==
    IF method \notin AllowedMethods THEN ErrorResp(405)
    ELSE render_template(cache, f)

\* ------------------------------------------------------------------ startup
Digits == {"0", "1", "2", "3", "4", "5", "6", "7", "8", "9"}
DigitVal(c) ==
    CASE c = "0" -> 0 [] c = "1" -> 1 [] c = "2" -> 2 [] c = "3" -> 3
      [] c = "4" -> 4 [] c = "5" -> 5 [] c = "6" -> 6 [] c = "7" -> 7
      [] c = "8" -> 8 [] c = "9" -> 9

RECURSIVE Decimal(_, _)
Decimal(s, acc) ==
    IF s = <<>> THEN acc ELSE Decimal(Tail(s), 10 * acc + DigitVal(Head(s)))

\* int(text): {} when it raises ValueError, else {value}.
ParseInt(s) ==
    LET neg == s # <<>> /\ s[1] = "-"
        ds == IF neg THEN Tail(s) ELSE s
    IN  IF ds = <<>> \/ \E i \in 1 .. Len(ds) : ds[i] \notin Digits THEN {}
        ELSE {IF neg THEN 0 - Decimal(ds, 0) ELSE Decimal(ds, 0)}

\* port = int(os.environ.get("PORT", 5000))
ChoosePortWithFallback(env) ==
    IF env = <<>> \/ ParseInt(env[1]) = {} THEN {DefaultPort} ELSE ParseInt(env[1])

ChoosePortDefaultOnly(env) == {DefaultPort}

ChoosePort(env) ==
    IF env = <<>> THEN {DefaultPort} ELSE ParseInt(env[1])

\* ------------------------------------------------------------------- state
VARIABLES
    fs,      \* the files under the application root
    procs,   \* the server processes
    req,     \* the request being answered, NoReq between exchanges
    resp     \* the response to it

vars == <<fs, procs, req, resp>>

OffProc ==
    [pc |-> "off", env |-> <<>>, port |-> {}, exit |-> {}, err |-> "",
     served |-> FALSE, cache |-> <<>>]

Listening(env, port) ==
    [pc |-> "listening", env |-> env, port |-> {port}, exit |-> {}, err |-> "",
     served |-> FALSE, cache |-> <<>>]

Exited(env, code, err) ==
    [pc |-> "exited", env |-> env, port |-> {}, exit |-> {code}, err |-> err,
     served |-> FALSE, cache |-> <<>>]

\* The ports some process listens on.
Held(ps) == UNION { ps[q].port : q \in Procs }

\* The bind of the listening socket: <<>> when the address is in use, else
\* <<port>>.  Port 0 asks the system for a free ephemeral port.
BindShared(ps, want) ==
    IF want = 0
    THEN { <<q>> : q \in EphemeralPorts }
    ELSE { <<want>> }

Bind(ps, want) ==
    IF want = 0
    THEN IF EphemeralPorts \subseteq Held(ps) THEN { <<>> }
         ELSE { <<q>> : q \in EphemeralPorts \ Held(ps) }
    ELSE IF want \in Held(ps) THEN { <<>> } ELSE { <<want>> }

\* The __main__ block of process p started with environment env.
main(p, env) ==
    /\ procs[p].pc = "off"
    /\ LET chosen == ChoosePort(env)
       IN  IF chosen = {}
           THEN procs' = [procs EXCEPT ![p] = Exited(env, 1, "ValueError")]
           ELSE LET want == CHOOSE n \in chosen : TRUE
                IN  IF want \notin PortRange
                    THEN procs' = [procs EXCEPT ![p] = Exited(env, 1, "OverflowError")]
                    ELSE \E b \in Bind(procs, want) :
                            procs' = [procs EXCEPT ![p] =
                                IF b = <<>> THEN Exited(env, 1, "EADDRINUSE")
                                ELSE Listening(env, b[1])]
    /\ UNCHANGED <<fs, req, resp>>

\* The server is interrupted: app.run returns and the process ends.
Stop(p) ==
    /\ procs[p].pc = "listening"
    /\ req.proc # p
    /\ procs' = [procs EXCEPT ![p] =
                    [@ EXCEPT !.pc = "exited", !.port = {}, !.exit = {0},
                              !.cache = <<>>]]
    /\ UNCHANGED <<fs, req, resp>>

\* A request for / handled by process p.
index_writing(p, method) ==
    /\ procs[p].pc = "listening"
    /\ req = NoReq
    /\ req' = [proc |-> p, method |-> method, path |-> IndexPath]
    /\ resp' = IndexResponse(procs[p].cache, fs, method)
    /\ procs' = [procs EXCEPT ![p] =
                    [@ EXCEPT !.served = TRUE,
                              !.cache = IF method \in AllowedMethods
                                        THEN GetTemplate(@, fs) ELSE @]]
    /\ fs' = [fs EXCEPT ![TplPath] = File(resp'.body)]

index(p, method) ==
    /\ procs[p].pc = "listening"
    /\ req = NoReq
    /\ req' = [proc |-> p, method |-> method, path |-> IndexPath]
    /\ resp' = IndexResponse(procs[p].cache, fs, method)
    /\ procs' = [procs EXCEPT ![p] =
                    [@ EXCEPT !.served = TRUE,
                              !.cache = IF method \in AllowedMethods
                                        THEN GetTemplate(@, fs) ELSE @]]
    /\ UNCHANGED fs

\* A request for /static/<raw> handled by process p.
static_files_lazy(p, method, raw) ==
    /\ procs[p].pc = "listening"
    /\ req = NoReq
    /\ req' = [proc |-> p, method |-> method, path |-> <<"static">> \o raw]
    /\ resp' = IF procs[p].served THEN StaticResponse(fs, method, raw)
               ELSE ErrorResp(404)
    /\ procs' = [procs EXCEPT ![p].served = TRUE]
    /\ UNCHANGED fs

static_files(p, method, raw) ==
    /\ procs[p].pc = "listening"
    /\ req = NoReq
    /\ req' = [proc |-> p, method |-> method, path |-> <<"static">> \o raw]
    /\ resp' = StaticResponse(fs, method, raw)
    /\ procs' = [procs EXCEPT ![p].served = TRUE]
    /\ UNCHANGED fs

\* The response is written to the client and the exchange ends.
Respond ==
    /\ req # NoReq
    /\ req' = NoReq
    /\ resp' = NoResp
    /\ UNCHANGED <<fs, procs>>

\* The environment (a deployment, an operator) changes a file.
EnvWrite(f, c) ==
    /\ fs[f] # File(c)
    /\ fs' = [fs EXCEPT ![f] = File(c)]
    /\ UNCHANGED <<procs, req, resp>>

EnvRemove(f) ==
    /\ fs[f] # Absent
    /\ fs' = [fs EXCEPT ![f] = Absent]
    /\ UNCHANGED <<procs, req, resp>>

EnvChmod(f) ==
    /\ fs[f].st = "file"
    /\ fs' = [fs EXCEPT ![f] = Unreadable]
    /\ UNCHANGED <<procs, req, resp>>

\* ----------------------------------------------------------- specifications
Init ==
    /\ fs = InitFs
    /\ procs = [p \in Procs |-> OffProc]
    /\ req = NoReq
    /\ resp = NoResp

\* Process 1 has started with PORT unset and listens.
InitServing ==
    /\ fs = InitFs
    /\ procs = [p \in Procs |-> IF p = 1 THEN Listening(<<>>, DefaultPort) ELSE OffProc]
    /\ req = NoReq
    /\ resp = NoResp

\* Startup, shutdown and the index route of several processes on one host.
NextStart ==
    \/ \E p \in Procs :
        \/ \E env \in PortEnvs : main(p, env)
        \/ Stop(p)
        \/ \E m \in Methods : index(p, m)
    \/ Respond

SpecStart == Init /\ [][NextStart]_vars

\* The index route of one process while the template file changes.
NextIndex ==
    \/ \E m \in Methods : index(1, m)
    \/ Respond
    \/ \E c \in TplContents : EnvWrite(TplPath, c)
    \/ EnvRemove(TplPath)
    \/ EnvChmod(TplPath)

SpecIndex == InitServing /\ [][NextIndex]_vars

\* The static route of one process while the static files change.
NextStatic ==
    \/ req = NoReq /\ \E m \in Methods, raw \in RawFilenames : static_files(1, m, raw)
    \/ Respond
    \/ \E f \in StaticFiles, c \in StaticContents : EnvWrite(f, c)
    \/ \E f \in StaticFiles : EnvRemove(f)

SpecStatic == InitServing /\ [][NextStatic]_vars

\* The whole program on a sample of its inputs.
ProbeEnvs == { <<>>, << <<"8", "0", "8", "0">> >>, << <<"a", "b", "c">> >> }
ProbeFilenames == { <<"a">>, <<"..", "s">>, <<"d", "..", "a">>, <<"s">> }
ProbeContents == { <<"T">>, <<"EXPR", "NL">> }
ProbeFiles == { TplPath, <<"static", "a">> }

ServerStep ==
    \/ \E p \in Procs :
        \/ \E env \in ProbeEnvs : main(p, env)
        \/ Stop(p)
        \/ \E m \in Methods : index(p, m)
        \/ \E m \in Methods, raw \in ProbeFilenames : static_files(p, m, raw)
    \/ Respond

EnvStep ==
    \/ \E f \in ProbeFiles, c \in ProbeContents : EnvWrite(f, c)
    \/ \E f \in ProbeFiles : EnvRemove(f)

Next == ServerStep \/ EnvStep

Spec == Init /\ [][Next]_vars

\* ------------------------------------------------------------------ claims
\* What the claims speak of.
RequestStep == req = NoReq /\ req' # NoReq
IndexReq(r) == r # NoReq /\ r.path = IndexPath
StaticReq(r) == r # NoReq /\ r.path[1] = "static"
\* The file name a static request carries, percent-decoded.
FilenameOf(r) == UnquotePath(Tail(r.path))
Under(dir, path) == Len(path) > Len(dir) /\ SubSeq(path, 1, Len(dir)) = dir

\* The place a file name denotes below the static folder by dot-segment
\* removal; inside is FALSE once the name is absolute or steps above the folder.
RECURSIVE LexWalk(_, _)
LexWalk(cur, segs) ==
    IF segs = <<>> THEN [inside |-> TRUE, path |-> cur]
    ELSE LET seg == Head(segs)
         IN  IF seg \in {"", "."} THEN LexWalk(cur, Tail(segs))
             ELSE IF seg = ".."
                  THEN IF cur = StaticFolder THEN [inside |-> FALSE, path |-> <<>>]
                       ELSE LexWalk(SubSeq(cur, 1, Len(cur) - 1), Tail(segs))
             ELSE LexWalk(Append(cur, seg), Tail(segs))

LexResolve(filename) ==
    IF isabs(filename) THEN [inside |-> FALSE, path |-> <<>>]
    ELSE LexWalk(StaticFolder, filename)

ExistsInStatic(f, filename) ==
    LET r == LexResolve(filename)
    IN  r.inside /\ r.path \in StaticFiles /\ f[r.path].st # "absent"

C2_ExistingFileServed ==
    [][(/\ RequestStep
        /\ StaticReq(req')
        /\ req'.method = "GET"
        /\ ExistsInStatic(fs, FilenameOf(req'))
        /\ fs[LexResolve(FilenameOf(req')).path].st = "file")
       => /\ resp'.status = 200
          /\ resp'.body = fs[LexResolve(FilenameOf(req')).path].data
          /\ resp'.file = <<LexResolve(FilenameOf(req')).path>>]_vars

C2_Witness ==
    /\ req.method = "GET"
    /\ req.path = <<"static", "d", "..", "a">>
    /\ fs[<<"static", "a">>] = File(<<"EXPR", "NL">>)
    /\ resp.status = 200
    /\ resp.body = <<"EXPR", "NL">>

IsRendering(src, out) ==
    LET n == IF src # <<>> /\ src[Len(src)] = "NL" THEN Len(src) - 1 ELSE Len(src)
    IN  /\ Len(out) = n
        /\ \A i \in 1 .. n : out[i] = (IF src[i] = "EXPR" THEN "2" ELSE src[i])

\* C4 as stated: GET / is answered 200 with a body equal to the contents of the
\* index template file, for any valid template content, at any time.
C4_BodyIsFileContents ==
    [][(/\ RequestStep
        /\ IndexReq(req')
        /\ req'.method = "GET"
        /\ fs[TplPath].st = "file"
        /\ Compiles(fs[TplPath].data))
       => (resp'.status = 200 /\ resp'.body = fs[TplPath].data)]_vars

\* C4, amended: GET / is answered 200 with the rendering (expressions
\* evaluated, one trailing newline dropped) of the template source the process
\* holds: the source it loaded at its first GET / that found a readable, valid
\* template file, kept for the process lifetime whatever the file becomes.
C4_BodyIsRenderedLoadedTemplate ==
    [][(/\ RequestStep
        /\ IndexReq(req')
        /\ req'.method = "GET")
       => LET c == procs[req'.proc].cache
              valid == fs[TplPath].st = "file" /\ Compiles(fs[TplPath].data)
              src == IF c # <<>> THEN c[1] ELSE fs[TplPath].data
          IN  (c # <<>> \/ valid) =>
                  /\ resp'.status = 200
                  /\ IsRendering(src, resp'.body)
                  /\ procs'[req'.proc].cache = <<src>>]_vars

C4_Witness ==
    /\ IndexReq(req)
    /\ req.method = "GET"
    /\ resp.status = 200
    /\ resp.body = <<"T", "2">>
    /\ procs[req.proc].cache = << <<"T", "EXPR">> >>
    /\ fs[TplPath] = File(<<"T", "EXPR">>)

\* C5 as stated: with the template file missing or unreadable, GET / ends in a
\* 5xx response, never a 200, and the process keeps listening.
C5_MissingTemplateIs500 ==
    [][(/\ RequestStep
        /\ IndexReq(req')
        /\ req'.method = "GET"
        /\ fs[TplPath].st \in {"absent", "unreadable"})
       => /\ resp'.status \in 500 .. 599
          /\ procs'[req'.proc].pc = "listening"]_vars

\* C5, amended: with the template file missing or unreadable, GET / to a
\* process that has not loaded the template yet ends in a 500 response and the
\* process keeps listening with nothing cached; a process that has loaded the
\* template answers 200 from its cache.
C5_MissingTemplateIs500UnlessCached ==
    [][(/\ RequestStep
        /\ IndexReq(req')
        /\ req'.method = "GET"
        /\ fs[TplPath].st \in {"absent", "unreadable"})
       => /\ procs'[req'.proc].pc = "listening"
          /\ procs[req'.proc].cache = <<>> =>
                /\ resp' = ErrorResp(500)
                /\ procs'[req'.proc].cache = <<>>
          /\ procs[req'.proc].cache # <<>> => resp'.status = 200]_vars

C5_Witness ==
    /\ IndexReq(req)
    /\ req.method = "GET"
    /\ resp.status = 500
    /\ fs[TplPath].st = "unreadable"
    /\ procs[req.proc].pc = "listening"
    /\ procs[req.proc].cache = <<>>

\* PORT values that are no integer literal.
NonIntegerPortStrings ==
    { <<"a", "b", "c">>, <<"8", "0", "8", "0", ".", "0">>, <<>> }

\* C6 as stated: a listening process listens on the integer PORT names, and on
\* 5000 when PORT is unset.
C6_ListensOnPortVariable ==
    \A p \in Procs :
        procs[p].pc = "listening" =>
            /\ procs[p].env = <<>> => procs[p].port = {DefaultPort}
            /\ (procs[p].env # <<>> /\ procs[p].env[1] \notin NonIntegerPortStrings)
                  => procs[p].port = ParseInt(procs[p].env[1])

\* C6, amended: a listening process listens on the integer PORT names when that
\* integer is not 0, on a port the system chose when PORT is 0, and on 5000 when
\* PORT is unset; its port and its environment never change while it listens.
C6_ListensOnPortVariableUnlessZero ==
    [][\A p \in Procs :
        procs'[p].pc = "listening" =>
            /\ procs'[p].env = <<>> => procs'[p].port = {DefaultPort}
            /\ (procs'[p].env # <<>> /\ procs'[p].env[1] \notin NonIntegerPortStrings)
                  => IF ParseInt(procs'[p].env[1]) = {0}
                     THEN procs'[p].port # {} /\ procs'[p].port \subseteq EphemeralPorts
                     ELSE procs'[p].port = ParseInt(procs'[p].env[1])
            /\ procs[p].pc = "listening"
                  => (procs'[p].port = procs[p].port /\ procs'[p].env = procs[p].env)]_vars

C6_Witness ==
    \E p \in Procs :
        /\ procs[p].pc = "listening"
        /\ procs[p].env = << <<"8", "0", "8", "0">> >>
        /\ procs[p].port = {8080}
        /\ procs[p].served

\* C7: a process started on a port another process listens on fails with a bind
\* error and exits non-zero without serving a request, the other keeps
\* listening, and no two processes ever listen on one port.
C7_SecondStartFails ==
    [][/\ \A p, q \in Procs :
            (p # q /\ procs'[p].pc = "listening" /\ procs'[q].pc = "listening")
                => procs'[p].port \cap procs'[q].port = {}
       /\ \A p \in Procs :
            (/\ procs[p].pc = "off"
             /\ procs'[p].pc # "off"
             /\ \E q \in Procs : /\ procs[q].pc = "listening"
                                 /\ procs[q].port = ChoosePort(procs'[p].env))
                => /\ procs'[p].pc = "exited"
                   /\ procs'[p].err = "EADDRINUSE"
                   /\ procs'[p].exit = {1}
                   /\ \A q \in Procs \ {p} : procs'[q] = procs[q]
       /\ \A p \in Procs :
            procs'[p].err = "EADDRINUSE" =>
                (~procs'[p].served /\ procs'[p].pc = "exited" /\ procs'[p].port = {})]_vars

C7_Witness ==
    \E p, q \in Procs :
        /\ procs[q].pc = "listening"
        /\ procs[q].port = {DefaultPort}
        /\ procs[q].served
        /\ procs[p].pc = "exited"
        /\ procs[p].err = "EADDRINUSE"
        /\ procs[p].exit = {1}
        /\ procs[p].env = procs[q].env

\* C8: starting, stopping and answering requests, successfully or not, never
\* change a file: the filesystem changes only in steps of the environment.
C8_ServerNeverWrites ==
    [][(procs' # procs \/ req' # req \/ resp' # resp) => fs' = fs]_vars

C8_Witness ==
    /\ fs = InitFs
    /\ StaticReq(req)
    /\ resp.status = 404
    /\ \E p \in Procs : procs[p].cache # <<>>
    /\ \E p \in Procs : procs[p].err = "ValueError"

\* The response a request gets from a process that has served nothing yet.
Alone(r, f) ==
    IF IndexReq(r) THEN IndexResponse(<<>>, f, r.method)
    ELSE StaticResponse(f, r.method, Tail(r.path))

FsSeenBy(p) ==
    IF procs[p].cache # <<>>
    THEN [fs EXCEPT ![TplPath] = File(procs[p].cache[1])]
    ELSE fs

C10_BadPortAborts ==
    \A p \in Procs :
        (procs[p].env # <<>> /\ procs[p].env[1] \in NonIntegerPortStrings) =>
            /\ procs[p].pc = "exited"
            /\ procs[p].err = "ValueError"
            /\ procs[p].exit = {1}
            /\ procs[p].port = {}
            /\ ~procs[p].served

C10_Witness ==
    \E p, q \in Procs :
        /\ procs[p].env = << <<"8", "0", "8", "0", ".", "0">> >>
        /\ procs[p].pc = "exited"
        /\ procs[q].pc = "listening"
        /\ procs[q].port = {DefaultPort}

====
